---- MODULE Spec2Model ----
(***************************************************************************)
(* Routine dashboard (src/dashboard/src/app/page.tsx): the persisted       *)
(* snapshot, its reconciliation against the compiled-in task catalog, the  *)
(* save effect, the two toggles and the derived view values.               *)
(***************************************************************************)
EXTENDS Integers, Sequences, FiniteSets, TLC

(***************************************************************************)
(* Bounds of the model.                                                    *)
(***************************************************************************)
\* Longest task array found in the storage slot at start-up.
MaxStored == 2

(***************************************************************************)
(* JSON values as JSON.parse produces them.  Every value is a record of    *)
(* the same shape; t is the JavaScript type of the value.                  *)
(*   b: the boolean, n: the number, s: the string,                         *)
(*   a: the elements of an array of strings, k: the own keys of an object. *)
(***************************************************************************)
Undefined == [t |-> "undefined", b |-> FALSE, n |-> 0, s |-> "", a |-> <<>>, k |-> {}]

JNull == [Undefined EXCEPT !.t = "null"]

JBool(v) == [Undefined EXCEPT !.t = "boolean", !.b = v]

JNum(v) == [Undefined EXCEPT !.t = "number", !.n = v]

JStr(v) == [Undefined EXCEPT !.t = "string", !.s = v]

JArr(v) == [Undefined EXCEPT !.t = "array", !.a = v]

JObj(v) == [Undefined EXCEPT !.t = "object", !.k = v]

\* Boolean(value): JavaScript truthiness (page.tsx:53 and :83).
Boolean_Strict(v) == v.t = "boolean" /\ v.b

Boolean(v) ==
  CASE v.t = "undefined" -> FALSE
    [] v.t = "null" -> FALSE
    [] v.t = "boolean" -> v.b
    [] v.t = "number" -> v.n # 0
    [] v.t = "string" -> v.s # ""
    [] OTHER -> TRUE

\* Array.prototype.join(","), which String(array) calls.
RECURSIVE Join(_)
Join(a) ==
  IF Len(a) = 0 THEN ""
  ELSE IF Len(a) = 1 THEN a[1]
  ELSE a[1] \o "," \o Join(Tail(a))

\* String(value) raises a TypeError for an object that has an own "toString"
\* key: a JSON value is never callable, and the inherited valueOf returns the
\* object itself, so no primitive is found.
StringThrows(v) == v.t = "object" /\ "toString" \in v.k

\* String(value) (page.tsx:37) where it does not throw.
String(v) ==
  CASE v.t = "string" -> v.s
    [] v.t = "number" -> ToString(v.n)
    [] v.t = "boolean" -> IF v.b THEN "true" ELSE "false"
    [] v.t = "null" -> "null"
    [] v.t = "undefined" -> "undefined"
    [] v.t = "array" -> Join(v.a)
    [] OTHER -> "[object Object]"

(***************************************************************************)
(* The compiled-in catalog.  A time is kept as its characters, so that     *)
(* parseMinutes parses it.                                                 *)
(***************************************************************************)
Task(id, title, time, block, details) ==
  [id |-> id, title |-> title, time |-> time, block |-> block,
   details |-> details, completed |-> FALSE]

defaultTasks ==
  << Task("hydrate", "Hydrate and stretch", <<"0", "6", ":", "3", "0">>, "Morning",
          "500ml water + 5 minute mobility routine"),
     Task("plan", "Plan the day", <<"0", "7", ":", "1", "5">>, "Morning",
          "Review calendar and set top 3 priorities"),
     Task("deep-work", "Deep work sprint", <<"0", "9", ":", "0", "0">>, "Midday",
          "90 minute focus block with notifications silenced"),
     Task("movement", "Movement break", <<"1", "2", ":", "3", "0">>, "Midday",
          "20 minute walk and light stretching"),
     Task("check-in", "Quick inbox sweep", <<"1", "5", ":", "0", "0">>, "Afternoon",
          "Respond to priority messages only"),
     Task("wrap-up", "Daily review", <<"1", "7", ":", "3", "0">>, "Afternoon",
          "Log progress and queue tasks for tomorrow"),
     Task("unwind", "Unwind routine", <<"2", "0", ":", "3", "0">>, "Evening",
          "Digital sunset, 30 minutes reading") >>

\* The state a component holds: its task list and the check-in flag.
RoutineState(ts, h) == [tasks |-> ts, hydrated |-> h]

createFallbackState == RoutineState(defaultTasks, FALSE)

(***************************************************************************)
(* An element of a stored task array: t is its JavaScript type and f its   *)
(* fields (Undefined for a key the object does not have).                  *)
(***************************************************************************)
Fields == {"id", "title", "time", "block", "details", "completed"}

NoFields == [x \in Fields |-> Undefined]

Item(t, id, completed) ==
  [t |-> t, f |-> [NoFields EXCEPT !["id"] = id, !["completed"] = completed]]

\* item && typeof item === "object" && "id" in item  (page.tsx:36)
HasId(item) == item.t = "object" /\ item.f["id"].t # "undefined"

\* new Map(pairs): a later pair replaces an earlier one with the same key.
RECURSIVE NewMap_FirstWins(_)
NewMap_FirstWins(pairs) ==
  IF pairs = <<>> THEN <<>>
  ELSE (Head(pairs)[1] :> Head(pairs)[2]) @@ NewMap_FirstWins(Tail(pairs))

RECURSIVE NewMap(_)
NewMap(pairs) ==
  IF pairs = <<>> THEN <<>>
  ELSE LET last == pairs[Len(pairs)]
       IN (last[1] :> last[2]) @@ NewMap(SubSeq(pairs, 1, Len(pairs) - 1))

\* The [String(id), item] pairs of the items that pass the filter (page.tsx:34-41).
RECURSIVE IdPairs(_)
IdPairs(items) ==
  IF items = <<>> THEN <<>>
  ELSE IF HasId(Head(items))
       THEN << <<String(Head(items).f["id"]), Head(items)>> >> \o IdPairs(Tail(items))
       ELSE IdPairs(Tail(items))

\* A value handed to mergeTaskState or found under the key "tasks": its type
\* and, for an array, its elements.
TasksValue(t, items) == [t |-> t, items |-> items]

\* What a function call yields: a returned value, or a thrown exception.
Return(v) == [threw |-> FALSE, value |-> v]

Throw == [threw |-> TRUE, value |-> <<>>]

\* A merge that keeps only the catalog tasks found in storage.
mergeTaskState_OnlyStored(storedTasks) ==
  IF storedTasks.t # "array" THEN Return(defaultTasks)
  ELSE IF \E i \in 1..Len(storedTasks.items) :
            HasId(storedTasks.items[i]) /\ StringThrows(storedTasks.items[i].f["id"])
       THEN Throw
       ELSE LET storedById == NewMap(IdPairs(storedTasks.items))
                Known(task) == task.id \in DOMAIN storedById
                Merged(task) ==
                  [task EXCEPT !.completed = Boolean(storedById[task.id].f["completed"])]
                kept == SelectSeq(defaultTasks, Known)
            IN Return([i \in 1..Len(kept) |-> Merged(kept[i])])

\* mergeTaskState (page.tsx:28-56).  String(id) may throw while the pairs are
\* built; otherwise the catalog is mapped in its own order.
mergeTaskState(storedTasks) ==
  IF storedTasks.t # "array" THEN Return(defaultTasks)
  ELSE IF \E i \in 1..Len(storedTasks.items) :
            HasId(storedTasks.items[i]) /\ StringThrows(storedTasks.items[i].f["id"])
       THEN Throw
       ELSE LET storedById == NewMap(IdPairs(storedTasks.items))
                Merged(task) ==
                  IF task.id \notin DOMAIN storedById THEN task
                  ELSE [task EXCEPT
                          !.completed = Boolean(storedById[task.id].f["completed"])]
            IN Return([i \in 1..Len(defaultTasks) |-> Merged(defaultTasks[i])])

(***************************************************************************)
(* A parsed document: its type, its elements when it is an array, and its  *)
(* "tasks" and "hydrated" fields when it is an object.                     *)
(***************************************************************************)
Doc(t, items, tasksField, hydratedField) ==
  [t |-> t, items |-> items, tasks |-> tasksField, hydrated |-> hydratedField]

NoTasks == TasksValue("undefined", <<>>)

ScalarDoc(t) == Doc(t, <<>>, NoTasks, Undefined)

ArrayDoc(items) == Doc("array", items, NoTasks, Undefined)

ObjectDoc(tasksField, hydratedField) == Doc("object", <<>>, tasksField, hydratedField)

\* The storage slot under STORAGE_KEY: no entry ("none"), the empty string,
\* text that is not JSON ("garbage"), or the text of a JSON document.
Slot(s, doc) == [s |-> s, doc |-> doc]

NoSlot == Slot("none", ScalarDoc("null"))

\* The string made of the given characters.
RECURSIVE Concat(_)
Concat(chars) == IF chars = <<>> THEN "" ELSE Head(chars) \o Concat(Tail(chars))

\* JSON.stringify of one task: every field of the task, as JSON.
TaskToJson(task) ==
  [t |-> "object",
   f |-> [x \in Fields |->
            CASE x = "id" -> JStr(task.id)
              [] x = "title" -> JStr(task.title)
              [] x = "time" -> JStr(Concat(task.time))
              [] x = "block" -> JStr(task.block)
              [] x = "details" -> JStr(task.details)
              [] OTHER -> JBool(task.completed)]]

\* A payload that leaves the check-in flag out.
Stringify_TasksOnly(ts, h) ==
  Slot("json", ObjectDoc(TasksValue("array", [i \in 1..Len(ts) |-> TaskToJson(ts[i])]),
                         Undefined))

\* JSON.stringify({ tasks, hydrated }) (page.tsx:179), as the slot then holds it.
Stringify(ts, h) ==
  Slot("json", ObjectDoc(TasksValue("array", [i \in 1..Len(ts) |-> TaskToJson(ts[i])]),
                         JBool(h)))

\* What window.localStorage.getItem(STORAGE_KEY) yields: the slot, or an
\* exception when the browser denies access to storage.
GetItem(slot, denied) == IF denied THEN [threw |-> TRUE, value |-> NoSlot] ELSE Return(slot)

\* What a load yields: threw when an exception leaves loadRoutineState,
\* logged when console.error was called, and the state returned.
Loaded(threw, logged, state) == [threw |-> threw, logged |-> logged, state |-> state]

\* The try block of loadRoutineState (page.tsx:63-85): threw for an exception
\* raised inside it, otherwise returned tells whether one of its return
\* statements was reached, with the state returned.
TryBlock(got) ==
  IF got.threw THEN [threw |-> TRUE, returned |-> FALSE, state |-> createFallbackState]
  ELSE LET stored == got.value
           parsed == stored.doc
       IN IF stored.s \in {"none", "empty"}
          THEN [threw |-> FALSE, returned |-> TRUE, state |-> createFallbackState]
          ELSE IF stored.s = "garbage"
          THEN [threw |-> TRUE, returned |-> FALSE, state |-> createFallbackState]
          ELSE IF parsed.t = "array"
          THEN LET m == mergeTaskState(TasksValue("array", parsed.items))
               IN IF m.threw
                  THEN [threw |-> TRUE, returned |-> FALSE, state |-> createFallbackState]
                  ELSE [threw |-> FALSE, returned |-> TRUE,
                        state |-> RoutineState(m.value, FALSE)]
          ELSE IF parsed.t = "object" /\ parsed.tasks.t = "array"
          THEN LET m == mergeTaskState(parsed.tasks)
               IN IF m.threw
                  THEN [threw |-> TRUE, returned |-> FALSE, state |-> createFallbackState]
                  ELSE [threw |-> FALSE, returned |-> TRUE,
                        state |-> RoutineState(m.value, Boolean(parsed.hydrated))]
          ELSE [threw |-> FALSE, returned |-> FALSE, state |-> createFallbackState]

\* loadRoutineState without its catch clause.
loadRoutineState_NoCatch(hasWindow, got) ==
  IF ~hasWindow THEN Loaded(FALSE, FALSE, createFallbackState)
  ELSE LET r == TryBlock(got)
       IN Loaded(r.threw, FALSE, r.state)

\* loadRoutineState that reads a wrapped snapshot as it reads a bare array.
loadRoutineState_DropsFlag(hasWindow, got) ==
  IF ~hasWindow THEN Loaded(FALSE, FALSE, createFallbackState)
  ELSE LET r == TryBlock(got)
       IN IF r.threw THEN Loaded(FALSE, TRUE, createFallbackState)
          ELSE Loaded(FALSE, FALSE, RoutineState(r.state.tasks, FALSE))

\* loadRoutineState (page.tsx:58-91).
loadRoutineState(hasWindow, got) ==
  IF ~hasWindow THEN Loaded(FALSE, FALSE, createFallbackState)
  ELSE LET r == TryBlock(got)
       IN IF r.threw THEN Loaded(FALSE, TRUE, createFallbackState)
          ELSE IF r.returned THEN Loaded(FALSE, FALSE, r.state)
          ELSE Loaded(FALSE, FALSE, createFallbackState)

(***************************************************************************)
(* The derived view values.                                                *)
(***************************************************************************)
Digits == [c \in {"0", "1", "2", "3", "4", "5", "6", "7", "8", "9"} |->
             CASE c = "0" -> 0 [] c = "1" -> 1 [] c = "2" -> 2 [] c = "3" -> 3
               [] c = "4" -> 4 [] c = "5" -> 5 [] c = "6" -> 6 [] c = "7" -> 7
               [] c = "8" -> 8 [] OTHER -> 9]

\* Number(text) for a text of decimal digits ("" is 0).  Every time of the
\* catalog is digits around one colon, so no other text reaches it.
RECURSIVE Number(_)
Number(chars) ==
  IF chars = <<>> THEN 0
  ELSE 10 * Number(SubSeq(chars, 1, Len(chars) - 1)) + Digits[chars[Len(chars)]]

\* time.split(":"): the pieces between the colons.
RECURSIVE Split(_)
Split(chars) ==
  IF \A i \in 1..Len(chars) : chars[i] # ":" THEN <<chars>>
  ELSE LET i == CHOOSE j \in 1..Len(chars) :
                  chars[j] = ":" /\ \A m \in 1..(j - 1) : chars[m] # ":"
       IN <<SubSeq(chars, 1, i - 1)>> \o Split(SubSeq(chars, i + 1, Len(chars)))

\* parseMinutes with the two parts swapped.
parseMinutes_Swapped(time) ==
  LET parts == Split(time)
  IN Number(parts[2]) * 60 + Number(parts[1])

\* parseMinutes (page.tsx:166-169).
parseMinutes(time) ==
  LET parts == Split(time)
  IN Number(parts[1]) * 60 + Number(parts[2])

\* Math.round of the quotient num / den (den > 0): the integer nearest to it,
\* a half rounded up.
MathRound_Truncating(num, den) == num \div den

MathRound(num, den) == (2 * num + den) \div (2 * den)

\* Array.prototype.sort with the comparator of page.tsx:195; the sort is
\* stable: an element goes after every element already placed whose key is
\* not greater.
RECURSIVE Insert(_, _)
Insert(sorted, x) ==
  IF sorted = <<>> THEN <<x>>
  ELSE IF parseMinutes(Head(sorted).time) - parseMinutes(x.time) <= 0
       THEN <<Head(sorted)>> \o Insert(Tail(sorted), x)
       ELSE <<x>> \o sorted

RECURSIVE SortByTime(_)
SortByTime(ts) ==
  IF ts = <<>> THEN <<>>
  ELSE Insert(SortByTime(SubSeq(ts, 1, Len(ts) - 1)), ts[Len(ts)])

\* slice(0, n)
Slice(ts, n) == SubSeq(ts, 1, IF Len(ts) < n THEN Len(ts) ELSE n)

\* The number of entries of the upcoming list (page.tsx:196).
UpcomingCount == 3

Incomplete(task) == ~task.completed

\* A toggle that can only complete a task.
toggleTask_OnlySets(prev, id) ==
  [i \in 1..Len(prev) |->
     IF prev[i].id = id THEN [prev[i] EXCEPT !.completed = TRUE] ELSE prev[i]]

\* The updater toggleTask hands to setTasks (page.tsx:208-214).
toggleTask(prev, id) ==
  [i \in 1..Len(prev) |->
     IF prev[i].id = id THEN [prev[i] EXCEPT !.completed = ~prev[i].completed]
     ELSE prev[i]]

(***************************************************************************)
(* The values the storage slot may hold when the page is first opened.     *)
(***************************************************************************)
\* Stored ids: two of the catalog, one unknown, and two that are not strings:
\* the array ["plan"] (String gives "plan") and an object with an own
\* "toString" key (String throws).
StoredIds == {JStr("plan"), JStr("unwind")}

OtherIds == {JStr("ghost"), JArr(<<"plan">>), JObj({"toString"})}

StoredCompleted == {Undefined, JBool(TRUE), JBool(FALSE), JNum(0), JNum(1), JStr("no")}

\* Stored array elements: objects with an id, an object without one, and null.
StoredItems ==
  {Item("object", id, c) : id \in StoredIds, c \in StoredCompleted}
    \cup {Item("object", id, JBool(TRUE)) : id \in OtherIds}
    \cup {Item("object", Undefined, JBool(TRUE)), Item("null", Undefined, Undefined)}

StoredArrays == UNION {[1..n -> StoredItems] : n \in 0..MaxStored}

StoredHydrated == {Undefined, JBool(TRUE), JBool(FALSE)}

InitialSlots ==
  {NoSlot, Slot("empty", ScalarDoc("null")), Slot("garbage", ScalarDoc("null")),
   Slot("json", ScalarDoc("null")), Slot("json", ScalarDoc("number")),
   Slot("json", ScalarDoc("string")), Slot("json", ScalarDoc("boolean"))}
    \cup {Slot("json", ObjectDoc(tv, h)) :
            tv \in {NoTasks, TasksValue("string", <<>>)}, h \in StoredHydrated}
    \cup {Slot("json", ArrayDoc(a)) : a \in StoredArrays}
    \cup {Slot("json", ObjectDoc(TasksValue("array", a), h)) :
            a \in StoredArrays, h \in StoredHydrated}

\* The ids a toggle may be called with: those of the catalog and one more.
ToggleIds == {defaultTasks[i].id : i \in 1..Len(defaultTasks)} \cup {"ghost"}

(***************************************************************************)
(* State.                                                                  *)
(*   access        "none": no window (pre-render); "denied": the browser   *)
(*                 refuses every use of localStorage; "granted"            *)
(*   storage       the slot under STORAGE_KEY                              *)
(*   pc            "unmounted", "effect" (rendered, save effect pending),  *)
(*                 "idle" (waiting for an event), "crashed" (an exception  *)
(*                 left the component)                                     *)
(*   tasks, hydrated   the two pieces of component state                   *)
(*   stored        what getItem yielded in the load of this render         *)
(*                 (page.tsx:64); a local of loadRoutineState, it is gone  *)
(*                 once the save effect has run                            *)
(*   logged        whether the load called console.error                   *)
(*   thrown        the function an uncaught exception came out of          *)
(*   lastWrite     how the last run of the save effect ended               *)
(*   event         the last event handled                                  *)
(***************************************************************************)
VARIABLES access, storage, pc, tasks, hydrated, stored, logged,
          thrown, lastWrite, event

vars == <<access, storage, pc, tasks, hydrated, stored, logged,
          thrown, lastWrite, event>>

Event(op, id) == [op |-> op, id |-> id]

Init ==
  /\ access \in {"none", "denied", "granted"}
  /\ storage \in (IF access = "granted" THEN InitialSlots ELSE {NoSlot})
  /\ pc = "unmounted"
  /\ tasks = defaultTasks
  /\ hydrated = FALSE
  /\ stored = Return(NoSlot)
  /\ logged = FALSE
  /\ thrown = "none"
  /\ lastWrite = "none"
  /\ event = Event("none", "")

\* The first render: useMemo runs loadRoutineState and the two useState
\* calls take its result (page.tsx:172-175).
Mount ==
  /\ pc = "unmounted"
  /\ LET got == GetItem(storage, access = "denied")
         r == loadRoutineState(access # "none", got)
     IN /\ stored' = (IF access = "none" THEN Return(NoSlot) ELSE got)
        /\ tasks' = r.state.tasks
        /\ hydrated' = r.state.hydrated
        /\ logged' = r.logged
        /\ thrown' = (IF r.threw THEN "loadRoutineState" ELSE "none")
        /\ pc' = (IF r.threw THEN "crashed" ELSE "effect")
  /\ event' = Event("mount", "")
  /\ UNCHANGED <<access, storage, lastWrite>>

\* The save effect (page.tsx:177-181).  Without a window it returns at once.
\* setItem throws when storage is denied or its quota is exceeded; nothing
\* catches that, so the exception leaves the effect and React unmounts the
\* component.
SaveEffect ==
  /\ pc = "effect"
  /\ \E quotaExceeded \in BOOLEAN :
       IF access = "none"
       THEN /\ lastWrite' = "skipped"
            /\ pc' = "idle"
            /\ UNCHANGED <<storage, thrown>>
       ELSE LET payload == Stringify(tasks, hydrated)
            IN IF access = "denied" \/ quotaExceeded
               THEN /\ lastWrite' = "failed"
                    /\ thrown' = "effect"
                    /\ pc' = "crashed"
                    /\ UNCHANGED storage
               ELSE /\ storage' = payload
                    /\ lastWrite' = "written"
                    /\ pc' = "idle"
                    /\ UNCHANGED thrown
  /\ stored' = Return(NoSlot)
  /\ UNCHANGED <<access, tasks, hydrated, logged, event>>

\* A click on a task (page.tsx toggleTask -> setTasks): the new array is a new
\* piece of state, so the component renders again and the save effect is due.
ToggleTask ==
  /\ pc = "idle"
  /\ access # "none"
  /\ \E id \in ToggleIds :
       /\ tasks' = toggleTask(tasks, id)
       /\ event' = Event("toggleTask", id)
  /\ pc' = "effect"
  /\ UNCHANGED <<access, storage, hydrated, stored, logged, thrown, lastWrite>>

\* A click on the check-in button: setHydrated(!hydrated) (page.tsx:277).
ToggleHydrated ==
  /\ pc = "idle"
  /\ access # "none"
  /\ hydrated' = ~hydrated
  /\ event' = Event("setHydrated", "")
  /\ pc' = "effect"
  /\ UNCHANGED <<access, storage, tasks, stored, logged, thrown, lastWrite>>

\* The page is opened again: the component state is gone, the slot stays.
Reload ==
  /\ pc \in {"idle", "crashed"}
  /\ access # "none"
  /\ pc' = "unmounted"
  /\ tasks' = defaultTasks
  /\ hydrated' = FALSE
  /\ stored' = Return(NoSlot)
  /\ logged' = FALSE
  /\ thrown' = "none"
  /\ lastWrite' = "none"
  /\ event' = Event("none", "")
  /\ UNCHANGED <<access, storage>>

Next == Mount \/ SaveEffect \/ ToggleTask \/ ToggleHydrated \/ Reload

Spec == Init /\ [][Next]_vars

(***************************************************************************)
(* The derived view values, as the render computes them from the state.    *)
(***************************************************************************)
\* page.tsx:183-186
totalCompleted == Len(SelectSeq(tasks, LAMBDA task : task.completed))

\* page.tsx:188
totalTasks == Len(tasks)

\* page.tsx:189-190
completionRate == IF totalTasks = 0 THEN 0 ELSE MathRound(totalCompleted * 100, totalTasks)

\* An upcoming list cut to its length before the completed tasks are removed.
upcoming_SliceFirst ==
  SortByTime(SelectSeq(Slice(tasks, UpcomingCount), Incomplete))

\* page.tsx:192-197
upcoming == Slice(SortByTime(SelectSeq(tasks, Incomplete)), UpcomingCount)

(***************************************************************************)
(* Vocabulary of the properties.                                           *)
(***************************************************************************)
\* The component is rendered: it has a live task list.
Live == pc \in {"effect", "idle"}

\* loadRoutineState has just run and its result is the component state.
JustMounted == pc = "effect" /\ event.op = "mount"

\* The load read a JSON document that holds a task array, bare or wrapped.
ReadTaskArray ==
  /\ ~stored.threw
  /\ stored.value.s = "json"
  /\ \/ stored.value.doc.t = "array"
     \/ stored.value.doc.t = "object" /\ stored.value.doc.tasks.t = "array"

\* The elements of that array.
Entries ==
  IF stored.value.doc.t = "array" THEN stored.value.doc.items
  ELSE stored.value.doc.tasks.items

\* Every stored object carries a boolean completed value.
BooleanEntries ==
  \A j \in 1..Len(Entries) :
    Entries[j].t = "object" => Entries[j].f["completed"].t = "boolean"

\* Some stored id cannot be converted to a string.
SomeIdThrows ==
  \E j \in 1..Len(Entries) : HasId(Entries[j]) /\ StringThrows(Entries[j].f["id"])

\* The positions of the stored entries whose id, as a string, is id.
Matches(id) ==
  {j \in 1..Len(Entries) : HasId(Entries[j]) /\ String(Entries[j].f["id"]) = id}

Last(S) == CHOOSE j \in S : \A m \in S : m <= j

\* The task list is the catalog with every task incomplete.
AllDefault(ts) ==
  /\ Len(ts) = Len(defaultTasks)
  /\ \A i \in 1..Len(ts) : ts[i] = defaultTasks[i] /\ ~ts[i].completed

\* The slot holds the serialization of the state (ts, h): an object with the
\* flag and every field of every task, in order.
SlotHolds(ts, h) ==
  /\ storage.s = "json"
  /\ storage.doc.t = "object"
  /\ storage.doc.hydrated = JBool(h)
  /\ storage.doc.tasks.t = "array"
  /\ Len(storage.doc.tasks.items) = Len(ts)
  /\ \A i \in 1..Len(ts) :
       LET item == storage.doc.tasks.items[i]
       IN /\ item.t = "object"
          /\ item.f["id"] = JStr(ts[i].id)
          /\ item.f["title"] = JStr(ts[i].title)
          /\ item.f["time"] = JStr(Concat(ts[i].time))
          /\ item.f["block"] = JStr(ts[i].block)
          /\ item.f["details"] = JStr(ts[i].details)
          /\ item.f["completed"] = JBool(ts[i].completed)

CompletedCount == Cardinality({i \in 1..Len(tasks) : tasks[i].completed})

(***************************************************************************)
(* C1.  In every state with a live task list, the ids of the list are the  *)
(* ids of the catalog: the same ids in the same order, none added, none    *)
(* removed, none twice.                                                    *)
(***************************************************************************)
C1_CatalogIds ==
  Live =>
    /\ Len(tasks) = Len(defaultTasks)
    /\ \A i \in 1..Len(tasks) : tasks[i].id = defaultTasks[i].id
    /\ \A i, j \in 1..Len(tasks) : tasks[i].id = tasks[j].id => i = j

\* Loaded from a stored array that names an unknown id first and a catalog
\* id second.
C1_Witness ==
  /\ JustMounted
  /\ ReadTaskArray
  /\ Len(Entries) = 2
  /\ Entries[1].f["id"] = JStr("ghost")
  /\ Entries[2].f["id"] = JStr("unwind")
  /\ tasks[7].completed

(***************************************************************************)
(* C2 as claimed.  After a load from a snapshot whose entries carry        *)
(* boolean completed values, each catalog task has the completed value of  *)
(* the stored entry with its id, and false when no entry has its id.       *)
(* Stated for the snapshots whose ids are all strings, where which entry   *)
(* has a given id is not in question.                                      *)
(***************************************************************************)
StringIds ==
  \A j \in 1..Len(Entries) : HasId(Entries[j]) => Entries[j].f["id"].t = "string"

C2_AsClaimed ==
  JustMounted /\ ReadTaskArray /\ BooleanEntries /\ StringIds =>
    \A i \in 1..Len(defaultTasks) :
      LET same == {j \in 1..Len(Entries) :
                    Entries[j].t = "object" /\ Entries[j].f["id"] = JStr(defaultTasks[i].id)}
      IN /\ tasks[i].id = defaultTasks[i].id
         /\ same = {} => ~tasks[i].completed
         /\ \A j \in same : tasks[i].completed = Entries[j].f["completed"].b

(***************************************************************************)
(* C2 amended.  After a load from such a snapshot, each catalog task has   *)
(* the completed value of the last stored entry whose id, converted to a   *)
(* string, is its id, and false when there is none; the result is the      *)
(* catalog in catalog order.  If some stored id cannot be converted to a   *)
(* string, the load returns the default state instead.                     *)
(***************************************************************************)
C2_LastEntryWins ==
  JustMounted /\ ReadTaskArray /\ BooleanEntries =>
    /\ thrown = "none"
    /\ IF SomeIdThrows THEN AllDefault(tasks) /\ ~hydrated
       ELSE /\ Len(tasks) = Len(defaultTasks)
            /\ \A i \in 1..Len(defaultTasks) :
                 LET m == Matches(defaultTasks[i].id)
                 IN tasks[i] =
                      [defaultTasks[i] EXCEPT
                         !.completed = IF m = {} THEN FALSE
                                       ELSE Entries[Last(m)].f["completed"].b]

\* Two stored entries for "plan", the first incomplete and the last completed.
C2_Witness ==
  /\ JustMounted
  /\ ReadTaskArray
  /\ Len(Entries) = 2
  /\ Entries[1] = Item("object", JStr("plan"), JBool(FALSE))
  /\ Entries[2] = Item("object", JStr("plan"), JBool(TRUE))
  /\ tasks[2].completed

(***************************************************************************)
(* C3 as claimed.  A catalog task whose deciding stored fragment has no    *)
(* completed field, or one that is not a boolean, is loaded incomplete.    *)
(***************************************************************************)
C3_AsClaimed ==
  JustMounted /\ ReadTaskArray /\ ~SomeIdThrows =>
    \A i \in 1..Len(defaultTasks) :
      LET m == Matches(defaultTasks[i].id)
      IN m # {} /\ Entries[Last(m)].f["completed"].t # "boolean" => ~tasks[i].completed

(***************************************************************************)
(* C3 amended.  Such a task is loaded with the truthiness of the field:    *)
(* incomplete when the field is absent, null, 0 or the empty string, and   *)
(* completed for any other number or string, an array or an object.        *)
(***************************************************************************)
C3_Truthiness ==
  JustMounted /\ ReadTaskArray /\ ~SomeIdThrows =>
    \A i \in 1..Len(defaultTasks) :
      LET m == Matches(defaultTasks[i].id)
          c == Entries[Last(m)].f["completed"]
      IN m # {} /\ c.t # "boolean" =>
           tasks[i].completed = (c \notin {Undefined, JNull, JNum(0), JStr("")})

\* The stored fragment of "plan" has the string "no" as its completed field.
C3_Witness ==
  /\ JustMounted
  /\ ReadTaskArray
  /\ Entries = <<Item("object", JStr("plan"), JStr("no"))>>
  /\ tasks[2].completed

(***************************************************************************)
(* C4.  No exception leaves loadRoutineState, and a load from a slot that  *)
(* is absent, empty, not JSON, JSON null, a JSON number, or an object      *)
(* whose tasks field is no array gives the whole catalog, every task       *)
(* incomplete, and the flag false.                                         *)
(***************************************************************************)
C4_FallbackNeverThrows ==
  /\ thrown # "loadRoutineState"
  /\ JustMounted /\ ~stored.threw
       /\ (\/ stored.value.s \in {"none", "empty", "garbage"}
           \/ stored.value.doc.t \in {"null", "number"}
           \/ stored.value.doc.t = "object" /\ stored.value.doc.tasks.t # "array")
     => AllDefault(tasks) /\ ~hydrated

\* The slot held text that is not JSON: the parse failure was caught and logged.
C4_Witness ==
  /\ JustMounted
  /\ stored.value.s = "garbage"
  /\ logged
  /\ AllDefault(tasks)

(***************************************************************************)
(* C5.  Once the save effect has written the state, loadRoutineState on    *)
(* the slot gives the same completed flag for every task and the same      *)
(* check-in flag.                                                          *)
(***************************************************************************)
C5_RoundTrip ==
  pc = "idle" /\ lastWrite = "written" =>
    LET r == loadRoutineState(TRUE, GetItem(storage, FALSE))
    IN /\ ~r.threw
       /\ r.state.hydrated = hydrated
       /\ Len(r.state.tasks) = Len(tasks)
       /\ \A i \in 1..Len(tasks) : r.state.tasks[i].completed = tasks[i].completed

\* A state that came back from the slot after a reload, with the flag set and
\* a task completed, and was written again.
C5_Witness ==
  /\ pc = "idle"
  /\ lastWrite = "written"
  /\ event.op = "mount"
  /\ hydrated
  /\ tasks[3].completed
  /\ ~tasks[4].completed

(***************************************************************************)
(* C6 as claimed.  A failing storage write is swallowed: no exception      *)
(* leaves the save effect and the component stays usable.                  *)
(***************************************************************************)
C6_WriteFailureSwallowed ==
  lastWrite = "failed" => thrown = "none" /\ pc # "crashed"

(***************************************************************************)
(* C7.  A toggleTask(id) event inverts the completed flag of the task with *)
(* that id and changes no other field, no other task, not the order and    *)
(* not the check-in flag (so nothing when no task has the id); a check-in  *)
(* event inverts the flag and changes no task.                             *)
(***************************************************************************)
C7_ToggleFrame ==
  [][pc = "idle" /\ pc' = "effect" =>
       IF event'.op = "toggleTask"
       THEN /\ hydrated' = hydrated
            /\ Len(tasks') = Len(tasks)
            /\ \A i \in 1..Len(tasks) :
                 /\ tasks'[i].id = tasks[i].id
                 /\ tasks'[i].title = tasks[i].title
                 /\ tasks'[i].time = tasks[i].time
                 /\ tasks'[i].block = tasks[i].block
                 /\ tasks'[i].details = tasks[i].details
                 /\ tasks'[i].completed =
                      (IF tasks[i].id = event'.id THEN ~tasks[i].completed
                       ELSE tasks[i].completed)
       ELSE hydrated' = ~hydrated /\ tasks' = tasks]_vars

\* "plan" has just been toggled back to incomplete while "deep-work" is completed.
C7_Witness ==
  /\ pc = "effect"
  /\ event = Event("toggleTask", "plan")
  /\ ~tasks[2].completed
  /\ tasks[3].completed

C9_CompletionRate ==
  Live =>
    LET r == completionRate
        c == CompletedCount
        n == Len(tasks)
    IN /\ r \in 0..100
       /\ 2 * (r * n - 100 * c) <= n
       /\ 2 * (100 * c - r * n) <= n
       /\ r = 0 <=> c = 0
       /\ r = 100 <=> c = n
       /\ c = 1 /\ n = 7 => r = 14

\* One of the seven tasks is completed and the rate is 14.
C9_Witness ==
  /\ pc = "idle"
  /\ Len(tasks) = 7
  /\ CompletedCount = 1
  /\ completionRate = 14

(***************************************************************************)
(* C10.  The upcoming list holds only incomplete tasks of the list, is     *)
(* ascending by hours * 60 + minutes with equal times in catalog order,    *)
(* has min(3, number of incomplete tasks) entries, and no incomplete task  *)
(* left out is earlier than a task in it.                                  *)
(***************************************************************************)
C10_Upcoming ==
  Live =>
    LET u == upcoming
        Pos(task) == CHOOSE i \in 1..Len(tasks) : tasks[i] = task
        incomplete == {i \in 1..Len(tasks) : ~tasks[i].completed}
        minutes(task) == parseMinutes(task.time)
    IN /\ parseMinutes(<<"0", "6", ":", "3", "0">>) = 6 * 60 + 30
       /\ \A k \in 1..Len(u) : \E i \in incomplete : u[k] = tasks[i]
       /\ Len(u) = (IF Cardinality(incomplete) < 3 THEN Cardinality(incomplete) ELSE 3)
       /\ \A k, l \in 1..Len(u) :
            k < l => \/ minutes(u[k]) < minutes(u[l])
                     \/ minutes(u[k]) = minutes(u[l]) /\ Pos(u[k]) < Pos(u[l])
       /\ \A i \in incomplete :
            (\A k \in 1..Len(u) : u[k] # tasks[i]) =>
              \A k \in 1..Len(u) : minutes(u[k]) <= minutes(tasks[i])

\* The first and third tasks are completed: the list skips them.
C10_Witness ==
  /\ pc = "idle"
  /\ tasks[1].completed
  /\ ~tasks[2].completed
  /\ tasks[3].completed
  /\ Len(upcoming) = 3
  /\ upcoming[1].id = "plan"
  /\ upcoming[2].id = "movement"
====
